---- MODULE Spec2Model ----
(***************************************************************************)
(* A model of the CSV normalisation pipeline of gott                       *)
(* (src/src/pipeline/data_pipeline.py): the amount parser, the period      *)
(* parser, the per-file tidier process_csv, the merge step and the driver  *)
(* run_pipeline.                                                           *)
(*                                                                         *)
(* Strings are sequences of one-character strings.  An Optional value is   *)
(* a sequence of length at most one: None is <<>>, Some(v) is <<v>>.       *)
(***************************************************************************)
EXTENDS Integers, Sequences, FiniteSets, TLC

VARIABLES
    rawDirExists,        \* whether {root}/data/raw exists
    rawFiles,            \* {root}/data/raw: file name -> the table in it
    tidyDirExists,       \* whether {root}/data/tidy exists
    processedDirExists,  \* whether {root}/data/processed exists
    tidyFiles,           \* {root}/data/tidy: file name -> the records in it
    parquet,             \* all_years_data.parquet: its records, if it exists
    pc,                  \* where run_pipeline is
    csvs,                \* run_pipeline's csvs: the raw files it discovered
    run,                 \* what the current run found and has done so far
    call,                \* a function under test, its argument, whether it returned
    ret                  \* what it returned

fsVars == <<rawDirExists, rawFiles, tidyDirExists, processedDirExists, tidyFiles, parquet>>
runVars == <<pc, csvs, run>>
callVars == <<call, ret>>
vars == <<fsVars, runVars, callVars>>

None == <<>>
Some(v) == <<v>>

----------------------------------------------------------------------------
(* Characters and the str methods the pipeline uses.                       *)

DigitChars == <<"0", "1", "2", "3", "4", "5", "6", "7", "8", "9">>

DigitSet == {DigitChars[i] : i \in 1..Len(DigitChars)}

DigitValues == [c \in DigitSet |-> (CHOOSE i \in 1..Len(DigitChars) : DigitChars[i] = c) - 1]

\* \d of the re module, over the model's characters.
IsDigit(c) == c \in DigitSet

DigitVal(c) == DigitValues[c]

\* The characters str.strip() removes.
IsSpace(c) == c \in {" ", "\t"}

RECURSIVE lstrip(_)
lstrip(s) ==
    IF s # <<>> /\ IsSpace(Head(s)) THEN lstrip(Tail(s)) ELSE s

RECURSIVE rstrip(_)
rstrip(s) ==
    IF s # <<>> /\ IsSpace(s[Len(s)]) THEN rstrip(SubSeq(s, 1, Len(s) - 1)) ELSE s

strip(s) == rstrip(lstrip(s))

startswith(s, c) == s # <<>> /\ s[1] = c
endswith(s, c) == s # <<>> /\ s[Len(s)] = c

----------------------------------------------------------------------------
(* Floating-point values.  A value m * 10^(-e) is the pair <<m, e>> in     *)
(* lowest terms (m not a multiple of 10 unless e = 0), so that equal       *)
(* numbers are equal pairs, as float's == has it ("5" = "5.0" = "05", and  *)
(* -0.0 = 0.0).  The tokens of the model are short enough for their        *)
(* decimal values to be exact.                                             *)

RECURSIVE Normalize(_, _)
Normalize(m, e) ==
    IF e > 0 /\ m % 10 = 0 THEN Normalize(m \div 10, e - 1) ELSE <<m, e>>

Negate(v) == <<0 - v[1], v[2]>>

RECURSIVE DigitsValue(_)
DigitsValue(s) ==
    IF s = <<>> THEN 0
    ELSE 10 * DigitsValue(SubSeq(s, 1, Len(s) - 1)) + DigitVal(s[Len(s)])

AllDigits(s) == \A i \in 1..Len(s) : IsDigit(s[i])

\* float(s) for a string over digits, '.' and '-' (all that _parse_amount
\* hands it): [sign] (digits ['.' [digits]] | '.' digits), anything else a
\* ValueError.  ok = FALSE is the ValueError.
float(s) ==
    LET body == IF startswith(s, "-") THEN Tail(s) ELSE s
        dots == {i \in 1..Len(body) : body[i] = "."}
        dotAt == IF dots = {} THEN Len(body) + 1 ELSE CHOOSE i \in dots : TRUE
        ip == SubSeq(body, 1, dotAt - 1)
        fp == SubSeq(body, dotAt + 1, Len(body))
        wellFormed == /\ Cardinality(dots) <= 1
                      /\ AllDigits(ip) /\ AllDigits(fp)
                      /\ Len(ip) + Len(fp) >= 1
        mag == Normalize(DigitsValue(ip \o fp), Len(fp))
    IN  IF wellFormed
        THEN [ok |-> TRUE, val |-> IF startswith(s, "-") THEN Negate(mag) ELSE mag]
        ELSE [ok |-> FALSE, val |-> <<0, 0>>]

----------------------------------------------------------------------------
(* _parse_amount                                                           *)

\* A cell pandas read as missing (pd.isna).
NaN == <<"<NaN>">>

isna(x) == x = NaN

\* re.sub(r"[^\d.\-]", "", s)
re_sub_non_numeric(s) == SelectSeq(s, LAMBDA c : IsDigit(c) \/ c = "." \/ c = "-")

\* What a call does: return a value, or raise.
Returned(v) == [raised |-> FALSE, value |-> v]
Raised == [raised |-> TRUE, value |-> None]

\* try: float(s) ... except ValueError: return None
parse_amount_try_uncaught(s, neg) ==
    LET f == float(s)
    IN  IF f.ok THEN Returned(Some(IF neg THEN Negate(f.val) ELSE f.val))
        ELSE Raised

parse_amount_try_unsigned(s, neg) ==
    LET f == float(s)
    IN  IF f.ok THEN Returned(Some(f.val)) ELSE Returned(None)

parse_amount_try(s, neg) ==
    LET f == float(s)
    IN  IF f.ok THEN Returned(Some(IF neg THEN Negate(f.val) ELSE f.val))
        ELSE Returned(None)

_parse_amount(x) ==
    IF isna(x) THEN Returned(None)
    ELSE LET s == strip(x)
         IN  IF s \in {<<>>, <<"-">>} THEN Returned(None)
             ELSE LET neg == startswith(s, "(") /\ endswith(s, ")")
                      inner == IF neg THEN SubSeq(s, 2, Len(s) - 1) ELSE s
                      residual == re_sub_non_numeric(inner)
                  IN  IF residual \in {<<>>, <<".">>, <<"-">>} THEN Returned(None)
                      ELSE parse_amount_try(residual, neg)

----------------------------------------------------------------------------
(* Month / period parsing                                                  *)

UpperLetters ==
    <<"A", "B", "C", "D", "E", "F", "G", "H", "I", "J", "K", "L", "M", "N", "O", "P", "Q", "R", "S", "T", "U", "V", "W", "X", "Y", "Z">>
LowerLetters ==
    <<"a", "b", "c", "d", "e", "f", "g", "h", "i", "j", "k", "l", "m", "n", "o", "p", "q", "r", "s", "t", "u", "v", "w", "x", "y", "z">>

\* The character U+0130, LATIN CAPITAL LETTER I WITH DOT ABOVE (written by
\* its code point: the module is ASCII): a letter whose lower case is "i"
\* for the re module and whose str.upper() is itself.
IDot == "U+0130"

UpperSet == {UpperLetters[i] : i \in 1..26}
LowerSet == {LowerLetters[i] : i \in 1..26}

ToLower == [c \in UpperSet |-> LowerLetters[CHOOSE i \in 1..26 : UpperLetters[i] = c]]
ToUpper == [c \in LowerSet |-> UpperLetters[CHOOSE i \in 1..26 : LowerLetters[i] = c]]

IsUpper(c) == c \in UpperSet
IsLower(c) == c \in LowerSet
IsLetter(c) == IsUpper(c) \/ IsLower(c) \/ c = IDot

\* The lower case re.IGNORECASE compares by.
re_lower(c) ==
    IF IsUpper(c) THEN ToLower[c]
    ELSE IF c = IDot THEN "i"
    ELSE c

\* str.upper(), character by character.
upper_char(c) ==
    IF IsLower(c) THEN ToUpper[c] ELSE c

upper(s) == [i \in 1..Len(s) |-> upper_char(s[i])]

\* str.lower() over the ASCII letters (the only ones it is applied to here).
lower_char(c) ==
    IF IsUpper(c) THEN ToLower[c] ELSE c

lower(s) == [i \in 1..Len(s) |-> lower_char(s[i])]

MONTHS == <<
    <<<<"J", "A", "N">>, 1>>,
    <<<<"J", "A", "N", "U", "A", "R", "Y">>, 1>>,
    <<<<"F", "E", "B">>, 2>>,
    <<<<"F", "E", "B", "R", "U", "A", "R", "Y">>, 2>>,
    <<<<"M", "A", "R">>, 3>>,
    <<<<"M", "A", "R", "C", "H">>, 3>>,
    <<<<"A", "P", "R">>, 4>>,
    <<<<"A", "P", "R", "I", "L">>, 4>>,
    <<<<"M", "A", "Y">>, 5>>,
    <<<<"J", "U", "N">>, 6>>,
    <<<<"J", "U", "N", "E">>, 6>>,
    <<<<"J", "U", "L">>, 7>>,
    <<<<"J", "U", "L", "Y">>, 7>>,
    <<<<"A", "U", "G">>, 8>>,
    <<<<"A", "U", "G", "U", "S", "T">>, 8>>,
    <<<<"S", "E", "P">>, 9>>,
    <<<<"S", "E", "P", "T">>, 9>>,
    <<<<"S", "E", "P", "T", "E", "M", "B", "E", "R">>, 9>>,
    <<<<"O", "C", "T">>, 10>>,
    <<<<"O", "C", "T", "O", "B", "E", "R">>, 10>>,
    <<<<"N", "O", "V">>, 11>>,
    <<<<"N", "O", "V", "E", "M", "B", "E", "R">>, 11>>,
    <<<<"D", "E", "C">>, 12>>,
    <<<<"D", "E", "C", "E", "M", "B", "E", "R">>, 12>> >>

MONTHS_get(token) ==
    IF \E i \in 1..Len(MONTHS) : MONTHS[i][1] = token
    THEN Some(MONTHS[CHOOSE i \in 1..Len(MONTHS) : MONTHS[i][1] = token][2])
    ELSE None

\* \w of the re module.
IsWordChar(c) == IsLetter(c) \/ IsDigit(c) \/ c = "_"

\* \b at the place before s[i] (i = Len(s) + 1: the end of the string).
WordBoundary(s, i) ==
    (i > 1 /\ IsWordChar(s[i - 1])) # (i <= Len(s) /\ IsWordChar(s[i]))

\* (19|20)\d{2} at position i.
YEAR_RE_matches_at(s, i) ==
    /\ i + 3 <= Len(s)
    /\ \/ s[i] = "1" /\ s[i + 1] = "9"
       \/ s[i] = "2" /\ s[i + 1] = "0"
    /\ IsDigit(s[i + 2]) /\ IsDigit(s[i + 3])

\* The leftmost match of YEAR_RE at or after position i: its text, if any.
RECURSIVE YEAR_RE_search_from(_, _)
YEAR_RE_search_from(s, i) ==
    IF i + 3 > Len(s) THEN None
    ELSE IF YEAR_RE_matches_at(s, i) THEN Some(SubSeq(s, i, i + 3))
    ELSE YEAR_RE_search_from(s, i + 1)

\* YEAR_RE.search(s)
YEAR_RE_search(s) == YEAR_RE_search_from(s, 1)

\* The alternatives of MONTH_TOKEN_RE's group, each with its optional suffix
\* expanded in the order the matcher tries them (<<>> pads the rows).
MonthAlternatives == <<
    <<<<"j", "a", "n", "u", "a", "r", "y">>, <<"j", "a", "n">>, <<>>>>,
    <<<<"f", "e", "b", "r", "u", "a", "r", "y">>, <<"f", "e", "b">>, <<>>>>,
    <<<<"m", "a", "r", "c", "h">>, <<"m", "a", "r">>, <<>>>>,
    <<<<"a", "p", "r", "i", "l">>, <<"a", "p", "r">>, <<>>>>,
    <<<<"m", "a", "y">>, <<>>, <<>>>>,
    <<<<"j", "u", "n", "e">>, <<"j", "u", "n">>, <<>>>>,
    <<<<"j", "u", "l", "y">>, <<"j", "u", "l">>, <<>>>>,
    <<<<"a", "u", "g", "u", "s", "t">>, <<"a", "u", "g">>, <<>>>>,
    <<<<"s", "e", "p", "t">>, <<"s", "e", "p", "t", "e", "m", "b", "e", "r">>, <<"s", "e", "p">>>>,
    <<<<"o", "c", "t", "o", "b", "e", "r">>, <<"o", "c", "t">>, <<>>>>,
    <<<<"n", "o", "v", "e", "m", "b", "e", "r">>, <<"n", "o", "v">>, <<>>>>,
    <<<<"d", "e", "c", "e", "m", "b", "e", "r">>, <<"d", "e", "c">>, <<>>>> >>

MonthPatternsAll ==
    {MonthAlternatives[a][k] : a \in 1..Len(MonthAlternatives),
                               k \in 1..3} \ {<<>>}

\* The patterns by their first letter (the only ones that can match a text
\* that starts with it).
MonthPatternsByFirst ==
    [c \in LowerSet |-> {w \in MonthPatternsAll : w[1] = c}]

literal_matches_ignorecase(s, i, w) ==
    /\ i + Len(w) - 1 <= Len(s)
    /\ \A k \in 2..Len(w) : re_lower(s[i + k - 1]) = w[k]

\* (?i)\b(alternatives)\b at position i: the length matched, 0 when none.
MONTH_TOKEN_RE_matches_at(s, i) ==
    IF ~WordBoundary(s, i) \/ re_lower(s[i]) \notin LowerSet THEN 0
    ELSE LET fits == {w \in MonthPatternsByFirst[re_lower(s[i])] :
                         /\ literal_matches_ignorecase(s, i, w)
                         /\ WordBoundary(s, i + Len(w))}
         IN  IF fits = {} THEN 0 ELSE Len(CHOOSE w \in fits : TRUE)

\* The leftmost match of MONTH_TOKEN_RE at or after position i: its
\* group(1), if any.
RECURSIVE MONTH_TOKEN_RE_search_from(_, _)
MONTH_TOKEN_RE_search_from(s, i) ==
    IF i > Len(s) THEN None
    ELSE LET n == MONTH_TOKEN_RE_matches_at(s, i)
         IN  IF n > 0 THEN Some(SubSeq(s, i, i + n - 1))
             ELSE MONTH_TOKEN_RE_search_from(s, i + 1)

\* MONTH_TOKEN_RE.search(s)
MONTH_TOKEN_RE_search(s) == MONTH_TOKEN_RE_search_from(s, 1)

_is_month_header(s) ==
    IF isna(s) THEN FALSE ELSE MONTH_TOKEN_RE_search(strip(s)) # None

_parse_year_from_filename(fp) ==
    LET m == YEAR_RE_search(fp)
    IN  IF m # None THEN Some(DigitsValue(m[1])) ELSE None

_parse_period_label(label) ==
    IF isna(label) THEN <<None, None>>
    ELSE LET s == strip(label)
             y == YEAR_RE_search(s)
             year == IF y # None THEN Some(DigitsValue(y[1])) ELSE None
             m == MONTH_TOKEN_RE_search(s)
             month == IF m # None THEN MONTHS_get(upper(m[1])) ELSE None
         IN  <<year, month>>

----------------------------------------------------------------------------
(* The headers of the model's raw tables.                                  *)

H_Category == <<"C", "a", "t", "e", "g", "o", "r", "y">>
H_Jan == <<"J", "a", "n">>
H_FebPadded == <<" ", "F", "e", "b">>
H_2020_Jan == <<"2", "0", "2", "0", "-", "J", "a", "n">>
H_2020uJan == <<"2", "0", "2", "0", "_", "J", "a", "n">>
H_Total == <<"T", "o", "t", "a", "l">>
H_X == <<"X">>
H_APRIL_dotted == <<"A", "P", "R", IDot, "L">>

HeaderRows ==
    {<<H_Category, H_Jan>>, <<H_Category, H_X>>, <<H_Category, H_Total>>,
     <<H_Category, H_APRIL_dotted>>, <<H_Category, H_2020uJan>>,
     <<H_Category, H_FebPadded, H_Jan>>, <<H_Category, H_2020_Jan, H_Jan>>,
     <<H_Category, H_Total, H_Jan>>, <<H_Category, H_X, H_Total>>}

\* The column names process_csv sees: the headers, stripped.
ColumnNames == UNION {{strip(h[j]) : j \in 1..Len(h)} : h \in HeaderRows}

\* TLC evaluates an operator anew at each use: these hold, computed once,
\* what _is_month_header and _parse_period_label give for each column name.
is_month_header_of == [c \in ColumnNames |-> _is_month_header(c)]
parse_period_label_of == [c \in ColumnNames |-> _parse_period_label(c)]

----------------------------------------------------------------------------
(* process_csv                                                             *)

\* ord() of the characters the model's categories, headers and file names
\* are written with.
CodePoint ==
    [c \in {" ", "$", "(", ")", ",", "-", ".", "/", "_", IDot} |->
        CASE c = " " -> 32 [] c = "$" -> 36 [] c = "(" -> 40 [] c = ")" -> 41
          [] c = "," -> 44 [] c = "-" -> 45 [] c = "." -> 46 [] c = "/" -> 47
          [] c = "_" -> 95 [] c = IDot -> 304]
    @@ [c \in DigitSet |-> 48 + DigitValues[c]]
    @@ [c \in UpperSet |-> 64 + CHOOSE i \in 1..26 : UpperLetters[i] = c]
    @@ [c \in LowerSet |-> 96 + CHOOSE i \in 1..26 : LowerLetters[i] = c]

\* a < b for two str, as Python compares them: by code point, a proper
\* prefix first.
RECURSIVE str_lt(_, _)
str_lt(a, b) ==
    IF b = <<>> THEN FALSE
    ELSE IF a = <<>> THEN TRUE
    ELSE IF Head(a) # Head(b) THEN CodePoint[Head(a)] < CodePoint[Head(b)]
    ELSE str_lt(Tail(a), Tail(b))

\* The place of the first " - " in s, 0 when there is none.
find_separator(s) ==
    LET hits == {i \in 1..(Len(s) - 2) : SubSeq(s, i, i + 2) = <<" ", "-", " ">>}
    IN  IF hits = {} THEN 0 ELSE CHOOSE h \in hits : \A g \in hits : h <= g

\* One row of Series.str.split(" - ", n=1, expand=True): <<Type, Source>>.
\* A missing category gives a missing Type and Source.
str_split_type_source(category) ==
    IF isna(category) THEN <<None, None>>
    ELSE LET at == find_separator(category)
         IN  IF at = 0 THEN <<Some(category), None>>
             ELSE <<Some(SubSeq(category, 1, at - 1)),
                    Some(SubSeq(category, at + 3, Len(category)))>>

_normalize_cols(cols) == [i \in 1..Len(cols) |-> strip(cols[i])]

non_month == {<<"t", "o", "t", "a", "l">>, <<"t", "o", "t", "a", "l", "s">>,
              <<"g", "r", "a", "n", "d", " ", "t", "o", "t", "a", "l">>}

\* The places of df.columns[1:], in order.
value_columns(cols) == [i \in 1..(Len(cols) - 1) |-> i + 1]

\* [c for c in df.columns[1:] if _is_month_header(c) and
\*  str(c).strip().lower() not in non_month], as the columns' places.
month_header_columns(cols) ==
    SelectSeq(value_columns(cols),
        LAMBDA j : is_month_header_of[cols[j]] /\ lower(strip(cols[j])) \notin non_month)

\* ... or list(df.columns[1:])
month_cols(cols) ==
    LET picked == month_header_columns(cols)
    IN  IF picked # <<>> THEN picked ELSE value_columns(cols)

\* df.melt(id_vars=["Category"], value_vars=month_cols, ...): one tuple per
\* value column and row, column by column, with the new frame's index.
melt(cols, rows, value_cols) ==
    [k \in 1..(Len(value_cols) * Len(rows)) |->
        LET j == value_cols[((k - 1) \div Len(rows)) + 1]
            r == rows[((k - 1) % Len(rows)) + 1]
        IN  [index |-> k - 1, Category |-> r[1], Month |-> cols[j], AmountRaw |-> r[j]]]

\* df_long["Year"].fillna(y_file), done when y_file is not None.
fillna_year(year, y_file) ==
    IF year = None /\ y_file # None THEN y_file ELSE year

\* The columns the pipeline adds to one melted tuple.
parse_tuple(t, y_file) ==
    LET ts == str_split_type_source(t.Category)
        ym == parse_period_label_of[t.Month]
    IN  [index |-> t.index,
         Amount |-> _parse_amount(t.AmountRaw).value,
         Type |-> ts[1], Source |-> ts[2],
         Year |-> fillna_year(ym[1], y_file),
         MonthNum |-> ym[2]]

\* df_long.dropna(subset=["Amount", "MonthNum"])
dropna_month_only(frame) ==
    SelectSeq(frame, LAMBDA t : t.MonthNum # None)

dropna(frame) ==
    SelectSeq(frame, LAMBDA t : t.Amount # None /\ t.MonthNum # None)

\* The order sort_values gives a column of numbers: a missing value last.
opt_int_lt(a, b) ==
    IF a = None THEN FALSE
    ELSE IF b = None THEN TRUE
    ELSE a[1] < b[1]

\* The order sort_values gives a column of str: a missing value last.
opt_str_lt(a, b) ==
    IF a = None THEN FALSE
    ELSE IF b = None THEN TRUE
    ELSE str_lt(a[1], b[1])

\* t before u by ["Year", "Month", "Type", "Source"].
key_lt(t, u) ==
    IF t.Year # u.Year THEN opt_int_lt(t.Year, u.Year)
    ELSE IF t.MonthNum # u.MonthNum THEN opt_int_lt(t.MonthNum, u.MonthNum)
    ELSE IF t.Type # u.Type THEN opt_str_lt(t.Type, u.Type)
    ELSE IF t.Source # u.Source THEN opt_str_lt(t.Source, u.Source)
    ELSE FALSE

\* x put into the sorted frame after every row that is not after it.
RECURSIVE insert_after_equals(_, _)
insert_after_equals(sorted, x) ==
    IF sorted = <<>> THEN <<x>>
    ELSE IF key_lt(x, sorted[Len(sorted)])
         THEN Append(insert_after_equals(SubSeq(sorted, 1, Len(sorted) - 1), x),
                     sorted[Len(sorted)])
         ELSE Append(sorted, x)

\* x put into the sorted frame before every row that is not before it.
RECURSIVE insert_before_equals(_, _)
insert_before_equals(sorted, x) ==
    IF sorted = <<>> THEN <<x>>
    ELSE IF key_lt(sorted[1], x)
         THEN <<sorted[1]>> \o insert_before_equals(Tail(sorted), x)
         ELSE <<x>> \o sorted

RECURSIVE sort_values_unstable(_)
sort_values_unstable(frame) ==
    IF frame = <<>> THEN <<>>
    ELSE insert_before_equals(sort_values_unstable(SubSeq(frame, 1, Len(frame) - 1)),
                              frame[Len(frame)])

\* .sort_values(["Year", "Month", "Type", "Source"], kind="stable")
RECURSIVE sort_values(_)
sort_values(frame) ==
    IF frame = <<>> THEN <<>>
    ELSE insert_after_equals(sort_values(SubSeq(frame, 1, Len(frame) - 1)),
                             frame[Len(frame)])

\* A str cell as to_csv writes it: a missing value as the empty field.
csv_field(v) == IF v = None THEN <<>> ELSE v[1]

\* A field as read_csv reads a str column: the empty field as missing.
read_field(text) == IF text = <<>> THEN None ELSE Some(text)

\* tidy.to_csv(output_path, index=False): the columns Year, Month, Type,
\* Source, Amount of each row, in the frame's order.  Type and Source are
\* the text written; the numbers are kept as numbers (they are written
\* and read back without loss).
to_csv(frame) ==
    [k \in 1..Len(frame) |->
        [Year |-> frame[k].Year, Month |-> frame[k].MonthNum,
         Type |-> csv_field(frame[k].Type), Source |-> csv_field(frame[k].Source),
         Amount |-> frame[k].Amount]]

\* pd.read_csv(f) of a tidy file.
read_csv_tidy(records) ==
    [k \in 1..Len(records) |->
        [records[k] EXCEPT !.Type = read_field(@), !.Source = read_field(@)]]

\* What one call of process_csv did.  df_long, kept and tidy are the frames
\* after the reshape and the parsing, after dropna and after the sort;
\* written is the file it wrote, if it wrote one.
ProcessOutcome(raised, skipped, fallback, long, kept, tidy, written) ==
    [raised |-> raised, skipped |-> skipped, fallback |-> fallback,
     df_long |-> long, kept |-> kept, tidy |-> tidy, written |-> written]

\* df is the frame pd.read_csv gave: its column names and its rows.
process_csv(file_name, df) ==
    IF df.rows = <<>>
    THEN ProcessOutcome(FALSE, TRUE, FALSE, <<>>, <<>>, <<>>, None)
    ELSE LET cols == _normalize_cols(df.columns)
             picked == month_header_columns(cols)
             melted == melt(cols, df.rows, month_cols(cols))
             y_file == _parse_year_from_filename(file_name)
             long == [k \in 1..Len(melted) |-> parse_tuple(melted[k], y_file)]
             kept == dropna(long)
             tidy == sort_values(kept)
         IN  IF \A r \in 1..Len(df.rows) : isna(df.rows[r][1])
             \* a Category column without a single string has no .str
             THEN ProcessOutcome(TRUE, FALSE, picked = <<>>, <<>>, <<>>, <<>>, None)
             ELSE ProcessOutcome(FALSE, FALSE, picked = <<>>, long, kept, tidy,
                                 Some(to_csv(tidy)))


----------------------------------------------------------------------------
(* merge_tidy_csv_to_parquet and run_pipeline                              *)

SUFFIX_CSV == <<".", "c", "s", "v">>
SUFFIX_TIDY_CSV == <<"_", "t", "i", "d", "y", ".", "c", "s", "v">>

ends_with(s, suffix) ==
    Len(s) >= Len(suffix) /\ SubSeq(s, Len(s) - Len(suffix) + 1, Len(s)) = suffix

\* Path.stem: the name without its last suffix.
stem(name) ==
    LET dots == {i \in 2..Len(name) : name[i] = "."}
    IN  IF dots = {} THEN name
        ELSE SubSeq(name, 1, (CHOOSE d \in dots : \A e \in dots : e <= d) - 1)

\* tidy_dir / f"{csv.stem}_tidy.csv", as a name in the tidy directory.
tidy_path(csv) == stem(csv) \o SUFFIX_TIDY_CSV

\* glob(pattern) for the pattern "*<suffix>" in a directory.
glob(dir, suffix) == {n \in DOMAIN dir : ends_with(n, suffix)}

\* sorted(names): both the Path objects of one directory and the path
\* strings of one directory are in the order of their names.
RECURSIVE sorted(_)
sorted(names) ==
    IF names = {} THEN <<>>
    ELSE LET first == CHOOSE n \in names : \A o \in names \ {n} : str_lt(n, o)
         IN  <<first>> \o sorted(names \ {first})

\* pd.concat(frames, ignore_index=True)
RECURSIVE concat(_)
concat(frames) ==
    IF frames = <<>> THEN <<>> ELSE Head(frames) \o concat(Tail(frames))

\* merge_tidy_csv_to_parquet: the records it writes to the parquet file,
\* None when it finds no tidy file and writes nothing.
merge_tidy_csv_to_parquet(dir) ==
    LET tidy_files == sorted(glob(dir, SUFFIX_TIDY_CSV))
    IN  IF tidy_files = <<>> THEN None
        ELSE Some(concat([k \in 1..Len(tidy_files) |-> read_csv_tidy(dir[tidy_files[k]])]))

\* A directory with file name |-> content added or replaced.
write_file(dir, name, content) ==
    [n \in DOMAIN dir \cup {name} |-> IF n = name THEN content ELSE dir[n]]

remove_file(dir, name) == [n \in DOMAIN dir \ {name} |-> dir[n]]

EmptyDir == [n \in {} |-> <<>>]

\* What is remembered of a run: the directories and the parquet file it
\* found, the files it called process_csv on with what each call wrote
\* (<<>> for a file skipped or failed), the file whose processing raised,
\* and whether it called the merge step and the merge step wrote.
NoRun ==
    [tidyDirBefore |-> FALSE, processedDirBefore |-> FALSE, parquetBefore |-> None,
     attempted |-> <<>>, outputs |-> <<>>, failed |-> None,
     mergeCalled |-> FALSE, mergeWrote |-> FALSE]

\* No run has started, on a root without a data directory.
PipelineAtRest ==
    /\ rawDirExists = FALSE
    /\ rawFiles = EmptyDir
    /\ tidyDirExists = FALSE
    /\ processedDirExists = FALSE
    /\ tidyFiles = EmptyDir
    /\ parquet = None
    /\ pc = "idle"
    /\ csvs = <<>>
    /\ run = NoRun

MaxFiles == 2

RawNames == {<<"a", ".", "c", "s", "v">>, <<"a", "_", "b", ".", "c", "s", "v">>, <<"b", ".", "c", "s", "v">>}

T_Empty == [columns |-> <<H_Category, H_Jan>>, rows |-> <<>>]
T_NoCategory == [columns |-> <<H_Category, H_Jan>>, rows |-> << <<NaN, <<"5">>>> >>]
T_One == [columns |-> <<H_Category, H_Jan>>, rows |-> << <<<<"A">>, <<"5">>>> >>]
T_Two ==
    [columns |-> <<H_Category, H_FebPadded, H_Jan>>,
     rows |-> << <<<<"B", " ", "-", " ", "x">>, <<"(", "7", ")">>, <<"5">>>> >>]

RawTables == {T_Empty, T_NoCategory, T_One, T_Two}

Init ==
    /\ PipelineAtRest
    /\ call = [fn |-> "none", arg |-> <<>>, returned |-> FALSE]
    /\ ret = Returned(None)

\* No run is under way: the user may change the raw directory.
AtRest == pc \in {"idle", "returned", "raised"}

ForgetRun == pc' = "idle" /\ csvs' = <<>> /\ run' = NoRun

MakeRawDir ==
    /\ AtRest /\ ~rawDirExists
    /\ rawDirExists' = TRUE
    /\ ForgetRun
    /\ UNCHANGED <<rawFiles, tidyDirExists, processedDirExists, tidyFiles, parquet, callVars>>

PutRaw ==
    /\ AtRest /\ rawDirExists
    /\ \E name \in RawNames, table \in RawTables :
          /\ Cardinality(DOMAIN rawFiles \cup {name}) <= MaxFiles
          /\ rawFiles' = write_file(rawFiles, name, table)
          /\ rawFiles' # rawFiles
    /\ ForgetRun
    /\ UNCHANGED <<rawDirExists, tidyDirExists, processedDirExists, tidyFiles, parquet, callVars>>

RemoveRaw ==
    /\ AtRest
    /\ \E name \in DOMAIN rawFiles : rawFiles' = remove_file(rawFiles, name)
    /\ ForgetRun
    /\ UNCHANGED <<rawDirExists, tidyDirExists, processedDirExists, tidyFiles, parquet, callVars>>

\* run_pipeline up to its loop: the two makedirs, the check of the raw
\* directory, the discovery of the raw files.
StartRun ==
    /\ AtRest
    /\ tidyDirExists' = TRUE                        \* os.makedirs(tidy_dir, exist_ok=True)
    /\ processedDirExists' = TRUE                   \* os.makedirs(processed_dir, exist_ok=True)
    /\ run' = [NoRun EXCEPT !.tidyDirBefore = tidyDirExists,
                            !.processedDirBefore = processedDirExists,
                            !.parquetBefore = parquet]
    /\ IF ~rawDirExists
       THEN pc' = "raised" /\ csvs' = <<>>          \* FileNotFoundError
       ELSE /\ csvs' = sorted(glob(rawFiles, SUFFIX_CSV))
            /\ pc' = IF csvs' = <<>> THEN "returned" ELSE "loop"
    /\ UNCHANGED <<rawDirExists, rawFiles, tidyFiles, parquet, callVars>>

\* Where run_pipeline goes after process_csv on the i-th of n files.
after_process_csv_isolated(raised, i, n) ==
    IF i = n THEN "merge" ELSE "loop"

after_process_csv(raised, i, n) ==
    IF raised THEN "raised"
    ELSE IF i = n THEN "merge" ELSE "loop"

\* One turn of the loop: process_csv(csv, out) on the next raw file.
ProcessNextCsv ==
    /\ pc = "loop"
    /\ LET i == Len(run.attempted) + 1
           csv == csvs[i]
           out == tidy_path(csv)
       IN  \E done \in {process_csv(csv, rawFiles[csv])} :
             LET wrote == ~done.raised /\ ~done.skipped
             IN  /\ tidyFiles' = IF wrote THEN write_file(tidyFiles, out, done.written[1])
                                 ELSE tidyFiles
                 /\ run' = [run EXCEPT
                        !.attempted = Append(@, csv),
                        !.outputs = Append(@, IF wrote THEN done.written[1] ELSE <<>>),
                        !.failed = IF done.raised THEN Some(csv) ELSE @]
                 /\ pc' = after_process_csv(done.raised, i, Len(csvs))
    /\ UNCHANGED <<rawDirExists, rawFiles, tidyDirExists, processedDirExists, parquet,
                   csvs, callVars>>

\* merge_tidy_csv_to_parquet(tidy_dir, parquet_file), and the return.
MergeTidy ==
    /\ pc = "merge"
    /\ \E merged \in {merge_tidy_csv_to_parquet(tidyFiles)} :
          /\ parquet' = IF merged # None THEN merged ELSE parquet
          /\ run' = [run EXCEPT !.mergeCalled = TRUE, !.mergeWrote = merged # None]
    /\ pc' = "returned"
    /\ UNCHANGED <<rawDirExists, rawFiles, tidyDirExists, processedDirExists, tidyFiles,
                   csvs, callVars>>

Next ==
    \/ MakeRawDir
    \/ PutRaw
    \/ RemoveRaw
    \/ StartRun
    \/ ProcessNextCsv
    \/ MergeTidy

Spec == Init /\ [][Next]_vars

----------------------------------------------------------------------------
(* Properties of run_pipeline, stated over the behaviours of Spec.         *)

\* run_pipeline returned after a merge that wrote the merged dataset.
MergedWritten == pc = "returned" /\ run.mergeWrote

\* The tidy outputs of the files of this run, as they read back, in the
\* order the raw files were discovered and processed.
TidyOutputsOfRun ==
    [k \in 1..Len(run.outputs) |-> read_csv_tidy(run.outputs[k])]

(* C1: after a run with a merge, the merged dataset is the concatenation   *)
(* of the per-file tidy outputs in ascending order of the raw file names   *)
(* (the order of discovery and processing), for every set of raw names.    *)
C1_MergedInRawFileOrder ==
    MergedWritten => parquet = Some(concat(TidyOutputsOfRun))

RECURSIVE SumOfLengths(_)
SumOfLengths(frames) ==
    IF frames = <<>> THEN 0 ELSE Len(Head(frames)) + SumOfLengths(Tail(frames))

(* C2: after a run with a merge, whatever the tidy directory held before,  *)
(* the merged row count is the sum of the tidy row counts of the raw       *)
(* files processed in this run.                                            *)
C2_MergedRowCountIsRunSum ==
    MergedWritten => Len(parquet[1]) = SumOfLengths(run.outputs)

IsPrefix(p, s) == Len(p) <= Len(s) /\ SubSeq(s, 1, Len(p)) = p

(* C6: files are tidied one at a time in discovery order (ascending raw    *)
(* name); the merge step runs only after every discovered file was         *)
(* processed; when tidying a file fails, run_pipeline raises, that file    *)
(* is the last one processed, the merge step is not called and the         *)
(* merged dataset is the one the run found.                                *)
C6_SequentialThenMergeOrAbort ==
    /\ pc \in {"loop", "merge", "returned"} => csvs = sorted(DOMAIN rawFiles)
    /\ IsPrefix(run.attempted, csvs)
    /\ (pc = "merge" \/ run.mergeCalled) => (run.attempted = csvs /\ run.failed = None)
    /\ pc = "loop" => ~run.mergeCalled /\ parquet = run.parquetBefore
    /\ run.failed # None =>
          /\ pc = "raised"
          /\ run.attempted[Len(run.attempted)] = run.failed[1]
          /\ ~run.mergeCalled
          /\ parquet = run.parquetBefore

\* Tidying a file failed with a later file still to process, in a run that
\* found a merged dataset of an earlier run.
C6_Witness ==
    /\ run.failed # None
    /\ Len(run.attempted) < Len(csvs)
    /\ run.parquetBefore # None

(* C7: when the raw directory does not exist run_pipeline raises before    *)
(* anything is touched: the file system is as it was before the run.       *)
C7_MissingRawDirTouchesNothing ==
    (pc = "raised" /\ run.failed = None) =>
        /\ tidyDirExists = run.tidyDirBefore
        /\ processedDirExists = run.processedDirBefore
        /\ parquet = run.parquetBefore
        /\ run.attempted = <<>>

----------------------------------------------------------------------------
(* The amount parser on its own: every token over AmountChars of at most   *)
(* MaxTokenLen characters, and the missing cell.                           *)

MaxTokenLen == 4

AmountChars == {"5", "0", ".", "-", "(", ")", "$", " ", ","}

RECURSIVE StringsUpTo(_, _)
StringsUpTo(chars, n) ==
    IF n = 0 THEN {<<>>}
    ELSE LET shorter == StringsUpTo(chars, n - 1)
         IN  shorter \cup {Append(s, c) : s \in shorter, c \in chars}

AmountTokens == StringsUpTo(AmountChars, MaxTokenLen) \cup {NaN}

InitAmount ==
    /\ PipelineAtRest
    /\ \E x \in AmountTokens : call = [fn |-> "_parse_amount", arg |-> x, returned |-> FALSE]
    /\ ret = Returned(None)

CallParseAmount ==
    /\ call.fn = "_parse_amount" /\ ~call.returned
    /\ call' = [call EXCEPT !.returned = TRUE]
    /\ ret' = _parse_amount(call.arg)
    /\ UNCHANGED <<fsVars, runVars>>

NextAmount == CallParseAmount

SpecAmount == InitAmount /\ [][NextAmount]_vars

(* C5: _parse_amount is total: it never raises; it returns null exactly    *)
(* for a missing cell and for a token whose residual (what is left after   *)
(* removing every character other than digits, '.' and '-') is not a       *)
(* number (empty, only punctuation, two decimal points, a minus that is    *)
(* not in front), and otherwise a number whose magnitude is the            *)
(* residual's.                                                             *)
C5_Residual(x) == SelectSeq(x, LAMBDA c : IsDigit(c) \/ c \in {".", "-"})

C5_Count(s, c) == Cardinality({i \in 1..Len(s) : s[i] = c})

C5_IsNumber(r) ==
    /\ \E i \in 1..Len(r) : IsDigit(r[i])
    /\ C5_Count(r, ".") <= 1
    /\ \A i \in 2..Len(r) : r[i] # "-"

Abs(v) == <<IF v[1] < 0 THEN 0 - v[1] ELSE v[1], v[2]>>

C5_ParseAmountTotal ==
    (call.fn = "_parse_amount" /\ call.returned) =>
        LET x == call.arg
            null == isna(x) \/ ~C5_IsNumber(C5_Residual(x))
        IN  /\ ~ret.raised
            /\ (ret.value = None) <=> null
            /\ ~null => Abs(ret.value[1]) = Abs(float(C5_Residual(x)).val)

\* A token with two decimal points was parsed, to null.
C5_Witness ==
    /\ call.fn = "_parse_amount" /\ call.returned
    /\ ~isna(call.arg)
    /\ C5_Count(C5_Residual(call.arg), ".") = 2
    /\ \E i \in 1..Len(call.arg) : IsDigit(call.arg[i])
    /\ ret = Returned(None)

(* C9: a trimmed token wrapped in parentheses whose inner text, stripped,  *)
(* parses to v returns -v, also when the inner text already carries a      *)
(* minus sign ('(-5)' returns 5); a token not wrapped returns the parsed   *)
(* value unchanged.                                                        *)
C9_Wrapped(s) == Len(s) >= 2 /\ s[1] = "(" /\ s[Len(s)] = ")"

C9_ParenthesesNegate ==
    (call.fn = "_parse_amount" /\ call.returned /\ ~isna(call.arg)) =>
        LET s == strip(call.arg)
            inner == IF C9_Wrapped(s) THEN SubSeq(s, 2, Len(s) - 1) ELSE s
            v == float(re_sub_non_numeric(inner))
        IN  v.ok =>
                ret.value = Some(IF C9_Wrapped(s) THEN <<0 - v.val[1], v.val[2]>> ELSE v.val)

\* '(-5)' was parsed, to 5.
C9_Witness ==
    /\ call.fn = "_parse_amount" /\ call.returned
    /\ call.arg = <<"(", "-", "5", ")">>
    /\ ret.value = Some(<<5, 0>>)

----------------------------------------------------------------------------
(* The period parser on its own: labels made of a year and a month name in *)
(* either order around one separator, in three casings, and labels with a  *)
(* month only, a year only, two months, or neither.                        *)

LabelYears == {<<"2", "0", "2", "0">>, <<"1", "9", "9", "9">>}

LabelSeparators == {" ", "-", "/", ".", "_"}

capitalize(s) == [i \in 1..Len(s) |-> IF i = 1 THEN upper_char(s[i]) ELSE lower_char(s[i])]

\* A month name of the table as a label may write it.
Casings(token) == {token, lower(token), capitalize(token)}

MonthNames == UNION {Casings(MONTHS[i][1]) : i \in 1..Len(MONTHS)}

YearMonthLabels ==
    UNION {{y \o <<sep>> \o m, m \o <<sep>> \o y} :
              y \in LabelYears, sep \in LabelSeparators, m \in MonthNames}

TwoMonthLabels ==
    {MONTHS[i][1] \o <<"-">> \o MONTHS[j][1] : i, j \in 1..Len(MONTHS)}

NoMonthLabels ==
    LabelYears \cup {<<"Q", "1">>, <<"T", "o", "t", "a", "l">>, <<"X">>, <<>>, NaN}

PeriodLabels ==
    YearMonthLabels \cup TwoMonthLabels \cup MonthNames \cup NoMonthLabels

InitPeriod ==
    /\ PipelineAtRest
    /\ \E label \in PeriodLabels :
          call = [fn |-> "_parse_period_label", arg |-> label, returned |-> FALSE]
    /\ ret = Returned(None)

CallParsePeriodLabel ==
    /\ call.fn = "_parse_period_label" /\ ~call.returned
    /\ call' = [call EXCEPT !.returned = TRUE]
    /\ ret' = Returned(_parse_period_label(call.arg))
    /\ UNCHANGED <<fsVars, runVars>>

NextPeriod == CallParsePeriodLabel

SpecPeriod == InitPeriod /\ [][NextPeriod]_vars

\* The month number the table gives a month name, whatever its case.
C8_MonthNumber(m) ==
    MONTHS[CHOOSE i \in 1..Len(MONTHS) : m \in Casings(MONTHS[i][1])][2]

C8_YearMonth(label, seps) ==
    \A y \in LabelYears, sep \in seps, m \in MonthNames :
        label \in {y \o <<sep>> \o m, m \o <<sep>> \o y} =>
            ret.value = <<Some(DigitsValue(y)), Some(C8_MonthNumber(m))>>

(* C8: a label made of a year 19xx/20xx and a month name of the table, in  *)
(* either order, in any case, separated by any punctuation character       *)
(* (space, '-', '/', '.', '_'), parses to that year and that month's       *)
(* number; of several month tokens the first wins; a label without a       *)
(* month token has a null month.                                           *)
C8_YearMonthAnySeparator ==
    (call.fn = "_parse_period_label" /\ call.returned) =>
        /\ C8_YearMonth(call.arg, LabelSeparators)
        /\ \A i, j \in 1..Len(MONTHS) :
              call.arg = MONTHS[i][1] \o <<"-">> \o MONTHS[j][1] =>
                  ret.value[2] = Some(MONTHS[i][2])
        /\ call.arg \in NoMonthLabels => ret.value[2] = None

\* What does hold of the code: the same, for the separators that are not
\* word characters of the re module (every one but '_').
C8_NonWordSeparators ==
    (call.fn = "_parse_period_label" /\ call.returned) =>
        /\ C8_YearMonth(call.arg, LabelSeparators \ {"_"})
        /\ \A i, j \in 1..Len(MONTHS) :
              call.arg = MONTHS[i][1] \o <<"-">> \o MONTHS[j][1] =>
                  ret.value[2] = Some(MONTHS[i][2])
        /\ call.arg \in NoMonthLabels => ret.value[2] = None

----------------------------------------------------------------------------
(* The tidier on its own: process_csv on every table with one of the       *)
(* header rows below and at most MaxRows rows, read from a file with and   *)
(* without a year in its name.                                             *)

MaxRows == 2

Categories == {<<"B", " ", "-", " ", "x">>, <<"B">>, <<"A">>, NaN}

\* The tables of one value column have every category; those of two have
\* the three that are strings.
CategoriesFor(header) == IF Len(header) = 2 THEN Categories ELSE Categories \ {NaN}

Cells == {<<"5">>, <<"(", "7", ")">>, <<"-">>}

TidyFileNames == {<<"2", "0", "2", "3", ".", "c", "s", "v">>, <<"b", ".", "c", "s", "v">>}

RowsFor(header) ==
    {r \in [1..Len(header) -> Categories \cup Cells] :
        /\ r[1] \in CategoriesFor(header)
        /\ \A j \in 2..Len(header) : r[j] \in Cells}

TablesFor(header) ==
    UNION {[1..n -> RowsFor(header)] : n \in 0..MaxRows}

InitTidy ==
    /\ PipelineAtRest
    /\ \E file_name \in TidyFileNames, header \in HeaderRows :
          \E rows \in TablesFor(header) :
              call = [fn |-> "process_csv",
                      arg |-> <<file_name, [columns |-> header, rows |-> rows]>>,
                      returned |-> FALSE]
    /\ ret = Returned(None)

CallProcessCsv ==
    /\ call.fn = "process_csv" /\ ~call.returned
    /\ call' = [call EXCEPT !.returned = TRUE]
    /\ ret' = process_csv(call.arg[1], call.arg[2])
    /\ UNCHANGED <<fsVars, runVars>>

NextTidy == CallProcessCsv

SpecTidy == InitTidy /\ [][NextTidy]_vars

\* process_csv went through to writing its tidy file.
Wrote == call.fn = "process_csv" /\ call.returned /\ ~ret.raised /\ ~ret.skipped

Indexes(frame) == {frame[k].index : k \in 1..Len(frame)}

(* C3: every record of a tidy file has a non-null amount, a month in       *)
(* 1..12 and a year that is null or in 1900..2099; a tuple whose amount    *)
(* or month did not parse is never written, and a tuple with both is       *)
(* written, also when its year is null.                                    *)
C3_EmittedRecordsValid ==
    Wrote =>
        /\ \A k \in 1..Len(ret.written[1]) :
              LET r == ret.written[1][k]
              IN  /\ r.Amount # None
                  /\ r.Month # None /\ r.Month[1] \in 1..12
                  /\ r.Year = None \/ r.Year[1] \in 1900..2099
        /\ Len(ret.written[1]) = Len(ret.tidy)
        /\ \A i \in 1..Len(ret.df_long) :
              LET t == ret.df_long[i]
              IN  (t.index \in Indexes(ret.tidy)) <=>
                      (t.Amount # None /\ t.MonthNum # None)

\* A file was written with a record whose year is null, while a tuple of
\* the same table whose amount did not parse was left out.
C3_Witness ==
    /\ Wrote
    /\ \E k \in 1..Len(ret.written[1]) : ret.written[1][k].Year = None
    /\ \E i \in 1..Len(ret.df_long) :
          /\ ret.df_long[i].Amount = None
          /\ ret.df_long[i].MonthNum # None
          /\ ret.df_long[i].index \notin Indexes(ret.tidy)

\* a is at most b, a missing value being the greatest of its column.
C4_IntLeq(a, b) == b = None \/ (a # None /\ a[1] <= b[1])
C4_StrLeq(a, b) == b = None \/ (a # None /\ ~str_lt(b[1], a[1]))

C4_KeyLeq(t, u) ==
    \/ t.Year # u.Year /\ C4_IntLeq(t.Year, u.Year)
    \/ /\ t.Year = u.Year
       /\ \/ t.MonthNum # u.MonthNum /\ t.MonthNum[1] < u.MonthNum[1]
          \/ /\ t.MonthNum = u.MonthNum
             /\ \/ t.Type # u.Type /\ C4_StrLeq(t.Type, u.Type)
                \/ /\ t.Type = u.Type
                   /\ C4_StrLeq(t.Source, u.Source)

C4_SameKey(t, u) ==
    /\ t.Year = u.Year /\ t.MonthNum = u.MonthNum
    /\ t.Type = u.Type /\ t.Source = u.Source

(* C4: the records of a tidy file are in non-decreasing order of (year,    *)
(* month, type, source), a null sorting last; records with equal keys      *)
(* keep the order their tuples had after the reshape; and the records are  *)
(* exactly the tuples that survived the filter.                            *)
C4_StableSorted ==
    Wrote =>
        /\ \A k \in 1..(Len(ret.tidy) - 1) :
              /\ C4_KeyLeq(ret.tidy[k], ret.tidy[k + 1])
              /\ C4_SameKey(ret.tidy[k], ret.tidy[k + 1]) =>
                    ret.tidy[k].index < ret.tidy[k + 1].index
        /\ Len(ret.tidy) = Len(ret.kept)
        /\ \A k \in 1..Len(ret.kept) :
              \E j \in 1..Len(ret.tidy) : ret.tidy[j] = ret.kept[k]
        /\ ret.written = Some(to_csv(ret.tidy))

\* The sort moved a tuple, and left two tuples with equal keys and
\* different amounts in their order.
C4_Witness ==
    /\ Wrote
    /\ ret.tidy # ret.kept
    /\ \E k \in 1..(Len(ret.tidy) - 1) :
          /\ C4_SameKey(ret.tidy[k], ret.tidy[k + 1])
          /\ ret.tidy[k].Amount # ret.tidy[k + 1].Amount

(* C10: the fallback is taken exactly when no non-category header holds a  *)
(* month token; then every label's month is null, every tuple is dropped   *)
(* and the tidy file has zero records.  Otherwise every selected column    *)
(* has a month, so a tuple is dropped only when its amount did not parse.  *)
C10_FallbackWritesNothing ==
    Wrote =>
        LET cols == call.arg[2].columns
        IN  /\ ret.fallback <=> \A j \in 2..Len(cols) : ~_is_month_header(cols[j])
            /\ ret.fallback =>
                  /\ \A i \in 1..Len(ret.df_long) : ret.df_long[i].MonthNum = None
                  /\ ret.written = Some(<<>>)
            /\ ~ret.fallback =>
                  \A i \in 1..Len(ret.df_long) :
                      /\ ret.df_long[i].MonthNum # None
                      /\ (ret.df_long[i].index \notin Indexes(ret.tidy)) <=>
                             (ret.df_long[i].Amount = None)

\* What does hold of the code: the same, for headers written in ASCII.
C10_AsciiHeaders ==
    (Wrote /\ \A j \in 1..Len(call.arg[2].columns) :
                 \A k \in 1..Len(call.arg[2].columns[j]) :
                     call.arg[2].columns[j][k] # IDot)
        => C10_FallbackWritesNothing

====
